---- MODULE Spec2Model ----
(***************************************************************************)
(* Model of bw-check.py: one run of the script is configuration loading    *)
(* (four Configuration objects), the sunrise/sunset gate, the hourly and   *)
(* daily StationData fetches, the online verdict, the composition of the   *)
(* MQTT messages, the publish and the log line.  The configuration file    *)
(* and the log file persist from one run to the next.                      *)
(*                                                                         *)
(* Instants are seconds on one time line; float hours (the period, the     *)
(* configured offsets) are compared after scaling to seconds.              *)
(***************************************************************************)
EXTENDS Integers, Sequences, FiniteSets, TLC

VARIABLES
    file,               \* bw-check.ini: NoFile, or the sequence of its sections
    cfg,                \* run / location / birdweather / mqtt: Configuration.config of each
    pc,                 \* position of the script
    run_no,             \* number of the current run of the script
    now,                \* datetime.now() of the run
    s,                  \* result of astral's sun() in between_sunrise_sunset
    requests,           \* the HTTP requests issued by this run, with their results
    hour,               \* the hourly StationData object
    day,                \* the daily StationData object
    status_msg,         \* module-level status_msg
    online_status_msg,  \* "ONLINE" / "OFFLINE"
    mqtt_msgs,          \* the list of (topic, payload, qos, retain) tuples
    broker_calls,       \* the calls of publish.multiple by this run: batch and outcome
    log_file,           \* bw-check.log: the sequence of its lines
    raised,             \* the uncaught exception that ended the run, if any
    exit_code           \* exit status the process ends with

vars == <<file, cfg, pc, run_no, now, s, requests, hour, day, status_msg,
          online_status_msg, mqtt_msgs, broker_calls, log_file, raised, exit_code>>

(***************************************************************************)
(* Bounds of the model.                                                    *)
(***************************************************************************)
MaxRuns == 2
MaxDays == 1

(***************************************************************************)
(* Values that stand for Python's None / an unbound name / no file.        *)
(***************************************************************************)
NoFile == [exists |-> FALSE, sections |-> <<>>]
Unbound == [bound |-> FALSE]
None == "None"
NotLoaded == [loaded |-> "False"]
NotComputed == [computed |-> FALSE]

(***************************************************************************)
(* The default settings of the four sections (module level).               *)
(***************************************************************************)
config_vars ==
    [debug |-> "False", limit_times |-> "True",
     sunrise_offset |-> "-1", sunset_offset |-> "1"]

location_vars ==
    [lat |-> "46.69", lon |-> "-92.05", tz |-> "America/Chicago"]

birdweather_vars ==
    [station_id |-> "2265", url |-> "https://app.birdweather.com/graphql"]

mqtt_vars ==
    [host |-> "192.168.1.1", port |-> "1883", username |-> "mqtt-user",
     password |-> "mqtt-password", topic |-> "birdweather"]

\* The order in which the script constructs its Configuration objects.
SectionOrder == <<"default", "location", "birdweather", "mqtt">>

Sections == {SectionOrder[i] : i \in 1..Len(SectionOrder)}

\* Configuration.config_vars of the object constructed for a section.
Defaults(section) ==
    CASE section = "default" -> config_vars
      [] section = "location" -> location_vars
      [] section = "birdweather" -> birdweather_vars
      [] section = "mqtt" -> mqtt_vars

(***************************************************************************)
(* The configuration file as ConfigParser sees it: a sequence of sections, *)
(* each a name and its options.                                            *)
(***************************************************************************)
SectionNames(f) ==
    {f.sections[i].section : i \in 1..Len(f.sections)}

\* imported_config[section] after imported_config.read(filename)
SectionData(f, section) ==
    LET i == CHOOSE j \in 1..Len(f.sections) : f.sections[j].section = section
    IN  f.sections[i].options

\* A new_config that opens the file with mode 'w' instead of 'a'.
new_config_truncating(f, section) ==
    [exists |-> TRUE,
     sections |-> <<[section |-> section, options |-> Defaults(section)]>>]

\* Configuration.new_config: append [section] with config_vars to the file
\* (mode 'a' creates the file when it does not exist).
new_config(f, section) ==
    [exists |-> TRUE,
     sections |-> Append(f.sections,
                         [section |-> section, options |-> Defaults(section)])]

\* The file after Configuration.import_config has created what is absent.
FileAfterImport(f, section) ==
    LET f1 == IF ~f.exists THEN new_config(f, section) ELSE f
    IN  IF section \notin SectionNames(f1) THEN new_config(f1, section) ELSE f1

\* imported_config_data[key] raises KeyError for a key the section lacks.
MissingKeys(f, section) ==
    DOMAIN Defaults(section) \ DOMAIN SectionData(FileAfterImport(f, section), section)

\* The dictionary import_config returns: the file's value of every key of
\* config_vars.
ImportedConfig(f, section) ==
    LET data == SectionData(FileAfterImport(f, section), section)
    IN  [key \in DOMAIN Defaults(section) |-> data[key]]

(***************************************************************************)
(* Initial contents of the configuration file.                             *)
(***************************************************************************)
Without(d, key) == [k \in DOMAIN d \ {key} |-> d[k]]

Edited(section) ==
    CASE section = "default" ->
            {[config_vars EXCEPT !.limit_times = "False"],
             [config_vars EXCEPT !.sunrise_offset = "0", !.sunset_offset = "0"]}
      [] section = "mqtt" -> {[mqtt_vars EXCEPT !.topic = "home/birds"]}
      [] OTHER -> {}

\* What the file may hold for a section: the defaults, the defaults with
\* one key deleted, or user-edited values.
SectionVariants(section) ==
    {Defaults(section)}
        \cup {Without(Defaults(section), key) : key \in DOMAIN Defaults(section)}
        \cup Edited(section)

\* The files that hold the sections of `present`, in the script's order.
RECURSIVE FilesFrom(_, _)
FilesFrom(present, i) ==
    IF i > Len(SectionOrder) THEN {<<>>}
    ELSE LET sec == SectionOrder[i]
             rest == FilesFrom(present, i + 1)
         IN  IF sec \notin present THEN rest
             ELSE {<<[section |-> sec, options |-> o]>> \o r :
                      o \in SectionVariants(sec), r \in rest}

InitialFiles ==
    {NoFile} \cup
    {[exists |-> TRUE, sections |-> secs] :
        secs \in UNION {FilesFrom(present, 1) : present \in SUBSET Sections}}

(***************************************************************************)
(* Time.                                                                   *)
(***************************************************************************)
SecondsPerHour == 3600
SecondsPerDay == 86400

\* The instants at which a run may start.
NowValues == {18000, 43200, 68400, 75600}

\* What astral's sun() gives for the location and date: the sunrise and the
\* sunset, or ValueError where the sun does not rise or set that day.
SunResults ==
    {[error |-> "ValueError"], [sunrise |-> 21600, sunset |-> 64800]}

\* float() of the offsets the configuration file holds.
Float(str) ==
    CASE str = "-1" -> -1
      [] str = "0" -> 0
      [] str = "1" -> 1

\* timedelta(hours=h) in seconds
Hours(h) == h * SecondsPerHour

\* between_sunrise_sunset, from the result of sun() on.
between_sunrise_sunset(sun, now_time, rise_offset, set_offset) ==
    LET sunrise_offset_time == sun.sunrise + Hours(Float(rise_offset))
        sunset_offset_time == sun.sunset + Hours(Float(set_offset))
    IN  sunrise_offset_time < now_time /\ now_time < sunset_offset_time

(***************************************************************************)
(* The Birdweather API.                                                    *)
(***************************************************************************)
hourly_query(station_id) ==
    "{station(id: " \o station_id
        \o "), {coords{lat, lon}, id, latestDetectionAt, name, topSpecies(limit: 10, period: {count: 1, unit: \"hour\"}) {count, species {commonName}, speciesId}}}"

daily_query(station_id) ==
    "{station(id: " \o station_id
        \o "), {coords{lat, lon}, id, latestDetectionAt, name, topSpecies(limit: 40, period: {count: 1, unit: \"day\"}) {count, species {commonName}, speciesId}}}"

\* period=12 of both StationData objects
Period == 12

\* Seconds between the last detection and now in the answers of the API.
ElapsedValues ==
    {d * SecondsPerDay + e : d \in 0..MaxDays, e \in {1800, 43200, 43201}}

TopSpeciesValues ==
    {<<>>,
     <<[count |-> 5, species |-> [commonName |-> "Robin"]],
       [count |-> 2, species |-> [commonName |-> "Jay"]]>>}

NoBody == [data |-> None]

\* data['data']['station'] of a well-formed answer
StationBody(name, latestDetectionAt, topSpecies) ==
    [data |-> [station |-> [name |-> name,
                            latestDetectionAt |-> latestDetectionAt,
                            topSpecies |-> topSpecies]]]

\* The outcomes of requests.post: an exception of requests, or a response
\* with a status code and a body.
FailedResponses ==
    {[exception |-> "ConnectionError", status_code |-> 0, content |-> NoBody],
     [exception |-> None, status_code |-> 500, content |-> NoBody],
     [exception |-> None, status_code |-> 404, content |-> NoBody]}

HourlyResponses(t) ==
    FailedResponses \cup
    {[exception |-> None, status_code |-> 200,
      content |-> StationBody("Backyard", t - e, top)] :
        e \in ElapsedValues, top \in TopSpeciesValues}

DailyResponses(t) ==
    FailedResponses \cup
    {[exception |-> None, status_code |-> 200,
      content |-> StationBody("Backyard", t - 1800, top)] :
        top \in TopSpeciesValues}

(***************************************************************************)
(* StationData.                                                            *)
(***************************************************************************)
\* species[species_common_name] = count on an insertion-ordered dict, kept
\* as the sequence of its items.
DictSet(dict, key, value) ==
    IF \E i \in 1..Len(dict) : dict[i].name = key
    THEN [i \in 1..Len(dict) |->
            IF dict[i].name = key THEN [name |-> key, count |-> value] ELSE dict[i]]
    ELSE Append(dict, [name |-> key, count |-> value])

\* The loop of station_data over raw_species_data.
RECURSIVE SpeciesDict(_, _)
SpeciesDict(raw_species_data, species) ==
    IF raw_species_data = <<>> THEN species
    ELSE SpeciesDict(Tail(raw_species_data),
                     DictSet(species, Head(raw_species_data).species.commonName,
                             Head(raw_species_data).count))

\* StationData.response: the status_msg it leaves and whether it returns the
\* response (otherwise None).
response_status_msg(r) ==
    IF r.exception # None THEN "ERROR FETCHING DATA: " \o r.exception
    ELSE IF r.status_code # 200 THEN "BAD RESPONSE: " \o ToString(r.status_code)
    ELSE "OK"

response_is_none(r) == r.exception # None \/ r.status_code # 200

\* StationData.__init__ on a response that response() returns: the object
\* with what station_data parses, and status_msg set to 'OK' last.
StationData(station_id, period, json_name, r) ==
    LET station_data == r.content.data.station
    IN  [bound |-> TRUE,
         station_id |-> station_id,
         period |-> period,
         json_name |-> json_name,
         name |-> station_data.name,
         last_detect |-> station_data.latestDetectionAt,
         species |-> SpeciesDict(station_data.topSpecies, <<>>),
         status_msg |-> "OK"]

\* timedelta.seconds: the seconds field of the normalised difference, the
\* days field dropped.
TimedeltaSeconds(delta) == delta % SecondsPerDay

\* StationData.online: delta_time.seconds / 3600 <= self.period.  The
\* script constructs both objects with period=12, so the replacement of a
\* blank period by 1.5 never applies.
online(obj, time_current) ==
    LET delta_time == time_current - obj.last_detect
    IN  TimedeltaSeconds(delta_time) <= obj.period * SecondsPerHour

(***************************************************************************)
(* Renderings of the species.                                              *)
(***************************************************************************)
RECURSIVE Join(_, _)
Join(sep, strs) ==
    IF strs = <<>> THEN ""
    ELSE IF Len(strs) = 1 THEN strs[1]
    ELSE strs[1] \o sep \o Join(sep, Tail(strs))

Quoted(str) == "\"" \o str \o "\""

\* json.dumps(self.species)
dumps_species(species) ==
    "{" \o Join(", ", [i \in 1..Len(species) |->
                        Quoted(species[i].name) \o ": " \o ToString(species[i].count)])
        \o "}"

\* json.dumps(self.json)
dumps_json(obj) ==
    "{" \o Quoted(obj.json_name) \o ": ["
        \o Join(", ", [i \in 1..Len(obj.species) |->
                        "{\"name\": " \o Quoted(obj.species[i].name)
                            \o ", \"count\": " \o ToString(obj.species[i].count) \o "}"])
        \o "]}"

\* StationData.plain
plain(obj) ==
    Join("\n", [i \in 1..Len(obj.species) |->
                   obj.species[i].name \o ": " \o ToString(obj.species[i].count)])

(***************************************************************************)
(* The MQTT messages.                                                      *)
(***************************************************************************)
\* A list of topic suffixes with an hourly topic and its daily counterpart
\* exchanged.
mqtt_topic_mods_swapped ==
    <<"/stats", "/TopDailySpecies", "/TopHourlySpecies", "/TopHourlySpecies/json",
      "/TopDailySpecies/json", "/TopHourlySpecies/plain", "/TopDailySpecies/plain", "">>

mqtt_topic_mods ==
    <<"/stats", "/TopHourlySpecies", "/TopDailySpecies", "/TopHourlySpecies/json",
      "/TopDailySpecies/json", "/TopHourlySpecies/plain", "/TopDailySpecies/plain", "">>

mqtt_payloads(h, d, time_now_iso, online_msg) ==
    <<"{ \"stationID\":\"" \o h.station_id
        \o "\", \"lastDetect\":\"" \o ToString(h.last_detect)
        \o "\", \"timeNow\":\"" \o ToString(time_now_iso) \o "\" }",
      dumps_species(h.species),
      dumps_species(d.species),
      dumps_json(h),
      dumps_json(d),
      plain(h),
      plain(d),
      online_msg>>

\* The loop that builds mqtt_msgs.
build_msgs(topic_base, payloads) ==
    [i \in 1..Len(mqtt_topic_mods) |->
        [topic |-> topic_base \o mqtt_topic_mods[i], payload |-> payloads[i],
         qos |-> 0, retain |-> FALSE]]

\* debug_print: the message with its timestamp
debug_print(time_stamp, msg) == ToString(time_stamp) \o ": " \o msg

\* The outcomes of publish.multiple: it returns, or raises an exception.
BrokerOutcomes == {None, "ConnectionRefusedError"}

\* A send whose except clause lets the exception through.
send_propagating(outcome) ==
    IF outcome = None THEN [status |-> "OK", raised |-> None]
    ELSE [status |-> "OK", raised |-> outcome]

\* MqttSender.send: 'OK', or "MQTT ERROR" for any exception of the publish.
send(outcome) ==
    IF outcome = None THEN [status |-> "OK", raised |-> None]
    ELSE [status |-> "MQTT ERROR", raised |-> None]

(***************************************************************************)
(* The script.                                                             *)
(***************************************************************************)
NextStep(section) ==
    LET i == CHOOSE j \in 1..Len(SectionOrder) : SectionOrder[j] = section
    IN  IF i < Len(SectionOrder) THEN SectionOrder[i + 1] ELSE "gate"

Init ==
    /\ file \in InitialFiles
    /\ cfg = [sec \in Sections |-> NotLoaded]
    /\ pc = SectionOrder[1]
    /\ run_no = 1
    /\ now \in NowValues
    /\ s = NotComputed
    /\ requests = <<>>
    /\ hour = Unbound
    /\ day = Unbound
    /\ status_msg = "OK"
    /\ online_status_msg = ""
    /\ mqtt_msgs = <<>>
    /\ broker_calls = <<>>
    /\ log_file = <<>>
    /\ raised = None
    /\ exit_code = 0

\* An uncaught exception ends the process with a traceback and status 1.
Uncaught(exception) ==
    /\ pc' = "exited"
    /\ raised' = exception
    /\ exit_code' = 1

\* Configuration(CONFIG_FILENAME, config_values, section): import_config with
\* create=True, then the dictionary it returns.
Configure(section) ==
    /\ pc = section
    /\ file' = FileAfterImport(file, section)
    /\ IF MissingKeys(file, section) # {}
       THEN /\ Uncaught("KeyError")
            /\ UNCHANGED cfg
       ELSE /\ cfg' = [cfg EXCEPT ![section] = ImportedConfig(file, section)]
            /\ pc' = NextStep(section)
            /\ UNCHANGED <<raised, exit_code>>
    /\ UNCHANGED <<run_no, now, s, requests, hour, day, status_msg,
                   online_status_msg, mqtt_msgs, broker_calls, log_file>>

\* if run.limit_times == 'True': between_sunrise_sunset(...) or sys.exit()
Gate ==
    /\ pc = "gate"
    /\ IF cfg["default"].limit_times = "True"
       THEN \E sun \in SunResults :
               /\ s' = sun
               /\ IF "error" \in DOMAIN sun
                  THEN Uncaught(sun.error)
                  ELSE IF between_sunrise_sunset(sun, now,
                                                 cfg["default"].sunrise_offset,
                                                 cfg["default"].sunset_offset)
                       THEN /\ pc' = "hour"
                            /\ UNCHANGED <<raised, exit_code>>
                       ELSE /\ pc' = "exited"
                            /\ UNCHANGED <<raised, exit_code>>
       ELSE /\ pc' = "hour"
            /\ UNCHANGED <<s, raised, exit_code>>
    /\ UNCHANGED <<file, cfg, run_no, now, requests, hour, day, status_msg,
                   online_status_msg, mqtt_msgs, broker_calls, log_file>>

\* hour = StationData(...); status_msg = hour.status_msg
\* A response() that returns None makes station_data raise AttributeError
\* on None.content, inside the constructor.
FetchHour ==
    /\ pc = "hour"
    /\ \E r \in HourlyResponses(now) :
          /\ requests' = Append(requests,
                 [query |-> hourly_query(cfg["birdweather"].station_id),
                  response |-> r])
          /\ IF response_is_none(r)
             THEN /\ Uncaught("AttributeError")
                  /\ UNCHANGED <<hour, status_msg>>
             ELSE /\ hour' = StationData(cfg["birdweather"].station_id, Period,
                                         "hourlytopspecies", r)
                  /\ status_msg' = hour'.status_msg
                  /\ pc' = "day"
                  /\ UNCHANGED <<raised, exit_code>>
    /\ UNCHANGED <<file, cfg, run_no, now, s, day, online_status_msg,
                   mqtt_msgs, broker_calls, log_file>>

\* day = StationData(...); status_msg = day.status_msg
FetchDay ==
    /\ pc = "day"
    /\ \E r \in DailyResponses(now) :
          /\ requests' = Append(requests,
                 [query |-> daily_query(cfg["birdweather"].station_id),
                  response |-> r])
          /\ IF response_is_none(r)
             THEN /\ Uncaught("AttributeError")
                  /\ UNCHANGED <<day, status_msg>>
             ELSE /\ day' = StationData(cfg["birdweather"].station_id, Period,
                                        "dailytopspecies", r)
                  /\ status_msg' = day'.status_msg
                  /\ pc' = "online"
                  /\ UNCHANGED <<raised, exit_code>>
    /\ UNCHANGED <<file, cfg, run_no, now, s, hour, online_status_msg,
                   mqtt_msgs, broker_calls, log_file>>

\* if hour.online(): online_status_msg = "ONLINE" else "OFFLINE"
CheckOnline ==
    /\ pc = "online"
    /\ online_status_msg' = IF online(hour, now) THEN "ONLINE" ELSE "OFFLINE"
    /\ pc' = "compose"
    /\ UNCHANGED <<file, cfg, run_no, now, s, requests, hour, day, status_msg,
                   mqtt_msgs, broker_calls, log_file, raised, exit_code>>

\* The topics, the payloads and the list of message tuples.
Compose ==
    /\ pc = "compose"
    /\ LET mqtt_topic_base == cfg["mqtt"].topic \o "/" \o hour.name
       IN  mqtt_msgs' = build_msgs(mqtt_topic_base,
                                   mqtt_payloads(hour, day, now, online_status_msg))
    /\ pc' = "send"
    /\ UNCHANGED <<file, cfg, run_no, now, s, requests, hour, day, status_msg,
                   online_status_msg, broker_calls, log_file, raised, exit_code>>

\* status_msg = server.send(mqtt_msgs)
Send ==
    /\ pc = "send"
    /\ \E outcome \in BrokerOutcomes :
          /\ broker_calls' = Append(broker_calls, [msgs |-> mqtt_msgs, outcome |-> outcome])
          /\ IF send(outcome).raised # None
             THEN /\ Uncaught(send(outcome).raised)
                  /\ UNCHANGED status_msg
             ELSE /\ status_msg' = send(outcome).status
                  /\ pc' = "log"
                  /\ UNCHANGED <<raised, exit_code>>
    /\ UNCHANGED <<file, cfg, run_no, now, s, requests, hour, day,
                   online_status_msg, mqtt_msgs, log_file>>

\* last_status = debug_print(...); the line is appended to the log file and
\* the script ends.
WriteLog ==
    /\ pc = "log"
    /\ LET last_status == debug_print(now, online_status_msg \o " - " \o status_msg)
       IN  log_file' = Append(log_file, last_status)
    /\ pc' = "exited"
    /\ UNCHANGED <<file, cfg, run_no, now, s, requests, hour, day, status_msg,
                   online_status_msg, mqtt_msgs, broker_calls, raised, exit_code>>

\* The scheduler starts the script again, later: a new process, with the
\* configuration file and the log file as the last run left them.
NewRun ==
    /\ pc = "exited"
    /\ run_no < MaxRuns
    /\ run_no' = run_no + 1
    /\ \E t \in NowValues : t > now /\ now' = t
    /\ cfg' = [sec \in Sections |-> NotLoaded]
    /\ pc' = SectionOrder[1]
    /\ s' = NotComputed
    /\ requests' = <<>>
    /\ hour' = Unbound
    /\ day' = Unbound
    /\ status_msg' = "OK"
    /\ online_status_msg' = ""
    /\ mqtt_msgs' = <<>>
    /\ broker_calls' = <<>>
    /\ raised' = None
    /\ exit_code' = 0
    /\ UNCHANGED <<file, log_file>>

Next ==
    \/ \E section \in Sections : Configure(section)
    \/ Gate
    \/ FetchHour
    \/ FetchDay
    \/ CheckOnline
    \/ Compose
    \/ Send
    \/ WriteLog
    \/ NewRun

Spec == Init /\ [][Next]_vars

(***************************************************************************)
(* Vocabulary of the properties.                                           *)
(***************************************************************************)
ConfigLoaded == \A sec \in Sections : cfg[sec] # NotLoaded

\* The script has executed the gate check of this run.
GateDone == ConfigLoaded /\ pc # "gate"

\* The run went on past the gate check.
PastGate ==
    \/ pc \in {"hour", "day", "online", "compose", "send", "log"}
    \/ pc = "exited" /\ requests # <<>>

\* The gate is disabled, or now is strictly inside the shifted window.
GateOpen ==
    \/ cfg["default"].limit_times # "True"
    \/ /\ "sunrise" \in DOMAIN s
       /\ s.sunrise + Float(cfg["default"].sunrise_offset) * 3600 < now
       /\ now < s.sunset + Float(cfg["default"].sunset_offset) * 3600

ExpectedSuffixes ==
    <<"/stats", "/TopHourlySpecies", "/TopDailySpecies", "/TopHourlySpecies/json",
      "/TopDailySpecies/json", "/TopHourlySpecies/plain", "/TopDailySpecies/plain", "">>

LogLines(t) ==
    {ToString(t) \o ": " \o verdict \o " - " \o status :
        verdict \in {"ONLINE", "OFFLINE"}, status \in {"OK", "MQTT ERROR"}}

\* The run has written its line to the log.
Logged == log_file # <<>> /\ log_file[Len(log_file)] \in LogLines(now)

(***************************************************************************)
(* C1: a fetch whose request fails at transport level or answers with a    *)
(* status code other than 200 completes without raising and leaves a       *)
(* snapshot whose status is the failure value and whose name, timestamp    *)
(* and species are empty defaults.                                         *)
(***************************************************************************)
C1_FailedFetchLeavesDegradedSnapshot ==
    \A i \in 1..Len(requests) :
        response_is_none(requests[i].response) =>
            LET obj == IF i = 1 THEN hour ELSE day
            IN  /\ raised = None
                /\ obj # Unbound
                /\ obj.status_msg = response_status_msg(requests[i].response)
                /\ obj.status_msg # "OK"
                /\ obj.name = ""
                /\ obj.species = <<>>
                /\ obj.last_detect = None

(***************************************************************************)
(* C2: every run that passes the gate submits the batch of 8 messages to   *)
(* the broker and then writes its log line, whatever the outcomes of the   *)
(* two fetches; with an hourly HTTP 500 and a successful publish the line  *)
(* ends in "- OK".  Stated on the run's final state.                       *)
(***************************************************************************)
C2_AdmittedRunPublishesAndLogs ==
    (pc = "exited" /\ GateDone /\ GateOpen) =>
        /\ Len(broker_calls) = 1
        /\ Len(broker_calls[1].msgs) = 8
        /\ Logged
        /\ (requests[1].response.status_code = 500 /\ broker_calls[1].outcome = None)
              => log_file[Len(log_file)] \in
                    {ToString(now) \o ": " \o verdict \o " - OK" :
                        verdict \in {"ONLINE", "OFFLINE"}}

(***************************************************************************)
(* C3: the run proceeds past the gate iff the gate is disabled or          *)
(* shifted sunrise < now < shifted sunset (strictly); a run that is not    *)
(* admitted issues no request, publishes nothing and exits with code 0.    *)
(***************************************************************************)
C3_GateAdmitsExactlyInsideWindow ==
    GateDone =>
        /\ PastGate <=> GateOpen
        /\ ~PastGate => /\ requests = <<>>
                        /\ broker_calls = <<>>
                        /\ pc = "exited"
                        /\ exit_code = 0

(***************************************************************************)
(* C4: the verdict is online iff the time elapsed since the last           *)
(* detection is at most the threshold, elapsed times of a day or more      *)
(* included.                                                               *)
(***************************************************************************)
C4_OnlineIffElapsedWithinThreshold ==
    online_status_msg # "" =>
        (online_status_msg = "ONLINE" <=> now - hour.last_detect <= 12 * 3600)

(***************************************************************************)
(* C5: every batch handed to the broker has exactly 8 entries with qos 0   *)
(* and retain false, their topics topicBase/stationName followed by the    *)
(* eight suffixes in order, and the base topic's payload is ONLINE when    *)
(* the verdict is online and OFFLINE otherwise.                            *)
(***************************************************************************)
C5_BatchHasTheEightTopics ==
    \A c \in 1..Len(broker_calls) :
        LET batch == broker_calls[c].msgs
        IN  /\ Len(batch) = 8
            /\ \A i \in 1..8 :
                  /\ batch[i].qos = 0
                  /\ batch[i].retain = FALSE
                  /\ batch[i].topic =
                        cfg["mqtt"].topic \o "/" \o hour.name \o ExpectedSuffixes[i]
            /\ batch[8].payload = IF online(hour, now) THEN "ONLINE" ELSE "OFFLINE"

C5_Witness ==
    /\ Len(broker_calls) = 1
    /\ broker_calls[1].msgs[2].topic = "home/birds/Backyard/TopHourlySpecies"
    /\ broker_calls[1].msgs[8].topic = "home/birds/Backyard"
    /\ broker_calls[1].msgs[8].payload = "OFFLINE"

(***************************************************************************)
(* C6: the batch is submitted in one publish call whose result is OK or    *)
(* the one generic status "MQTT ERROR"; a failed publish does not abort    *)
(* the run, which appends exactly one line made of the timestamp, ONLINE   *)
(* or OFFLINE, and the publish status, and ends normally.                  *)
(***************************************************************************)
C6_SendStep ==
    pc = "send" =>
        /\ broker_calls = <<>>
        /\ Len(broker_calls') = 1
        /\ broker_calls'[1].msgs = mqtt_msgs
        /\ status_msg' = IF broker_calls'[1].outcome = None THEN "OK" ELSE "MQTT ERROR"
        /\ raised' = None
        /\ pc' = "log"
        /\ log_file' = log_file

C6_LogStep ==
    pc = "log" =>
        /\ online_status_msg \in {"ONLINE", "OFFLINE"}
        /\ log_file' = Append(log_file,
                ToString(now) \o ": " \o online_status_msg \o " - " \o status_msg)
        /\ status_msg' = status_msg
        /\ pc' = "exited"
        /\ raised' = None
        /\ exit_code' = 0

C6_PublishFailureIsLoggedNotRaised ==
    [][/\ C6_SendStep
       /\ C6_LogStep
       /\ pc # "log" => log_file' = log_file]_vars

C6_Witness ==
    /\ pc = "exited"
    /\ Len(broker_calls) = 1
    /\ broker_calls[1].outcome = "ConnectionRefusedError"
    /\ exit_code = 0
    /\ raised = None
    /\ log_file = <<"43200: ONLINE - MQTT ERROR">>

(***************************************************************************)
(* C7: loading the configuration never changes the stored value of a key   *)
(* that exists: an absent file or section is created with the defaults,    *)
(* an existing section is only read, and no section is written twice.      *)
(***************************************************************************)
C7_LoadStep ==
    /\ \A sec \in SectionNames(file) :
          /\ sec \in SectionNames(file')
          /\ \A key \in DOMAIN SectionData(file, sec) :
                /\ key \in DOMAIN SectionData(file', sec)
                /\ SectionData(file', sec)[key] = SectionData(file, sec)[key]
    /\ Cardinality(SectionNames(file)) = Len(file.sections)
          => Cardinality(SectionNames(file')) = Len(file'.sections)
    /\ pc \in Sections =>
          IF pc \in SectionNames(file)
          THEN file' = file
          ELSE /\ file'.exists
               /\ Len(file'.sections) = Len(file.sections) + 1
               /\ SectionData(file', pc) = Defaults(pc)

C7_LoadingNeverOverwrites == [][C7_LoadStep]_vars

C7_Witness ==
    /\ run_no = 2
    /\ pc = "gate"
    /\ Len(file.sections) = 4
    /\ file.sections[1].section = "mqtt"
    /\ file.sections[1].options.topic = "home/birds"
    /\ file.sections[2].section = "default"
    /\ cfg["mqtt"].topic = "home/birds"

(***************************************************************************)
(* C8: whatever settings are absent (no file, a file without a section, a  *)
(* section without one of its keys), configuration loading completes and   *)
(* yields a value for every expected key.                                  *)
(***************************************************************************)
C8_LoadingYieldsEveryKey ==
    /\ raised # "KeyError"
    /\ pc \notin Sections =>
          \A sec \in Sections :
              /\ cfg[sec] # NotLoaded
              /\ DOMAIN cfg[sec] = DOMAIN Defaults(sec)

(***************************************************************************)
(* C9: a run that passes the gate issues exactly one hourly and one daily  *)
(* request, the hourly one first, whatever the outcome of either.          *)
(***************************************************************************)
C9_OneHourlyThenOneDailyRequest ==
    /\ Len(requests) <= 2
    /\ (pc = "exited" /\ GateDone /\ GateOpen) =>
          /\ Len(requests) = 2
          /\ requests[1].query = hourly_query(cfg["birdweather"].station_id)
          /\ requests[2].query = daily_query(cfg["birdweather"].station_id)

(***************************************************************************)
(* C10: when the gate is enabled and the sunrise/sunset computation fails, *)
(* the run goes on to the fetches, the publish and the log as if the gate  *)
(* were disabled.                                                          *)
(***************************************************************************)
C10_SunFailureDisablesGate ==
    "error" \in DOMAIN s => (raised # s.error /\ PastGate)

====
